---------------------------- MODULE Spec2Model ----------------------------
(***************************************************************************)
(* PolyAgent Sim backend (backend/app): the paper-trading ledger, the      *)
(* sliding-window rate limiter and the market cache of main.py, the market *)
(* normalization of services/polymarket_service.py and the opportunity     *)
(* scoring of services/market_analyzer.py.                                 *)
(*                                                                         *)
(* Units.  Money is held in cents (stored amounts, balance) and in mills,  *)
(* thousandths of a dollar, for an amount as it arrives in a request       *)
(* before the schema rounds it.  Prices are held in thousandths (1000 is a *)
(* price of 1.0), and so are spreads and price changes.  Scores are held   *)
(* in tenths of a point.  Time is held in whole seconds.  Arithmetic is    *)
(* exact: the last-bit rounding of the floats of the code is left out.     *)
(*                                                                         *)
(* Scheduling.  Every handler of main.py is an `async def` served by one   *)
(* event loop: the code between two `await`s runs without interleaving.    *)
(* simulate_trade, reset_portfolio and check_rate_limit contain no await   *)
(* and are one action each; update_trade_prices awaits once per trade and  *)
(* get_markets awaits its upstream fetch, so these are processes with a    *)
(* position, and other handlers run while they wait.                       *)
(***************************************************************************)
EXTENDS Integers, Sequences, FiniteSets, TLC

VARIABLES
    balance,     \* Portfolio.balance of the single portfolio row, in cents
    trades,      \* the trades table: rows in insertion order
    up,          \* the update_trade_prices request in flight (its session)
    resp,        \* the last response a ledger handler returned, with the state it ran in
    reported,    \* sum of the amounts of the placements answered success since the last reset
    portfolios,  \* number of rows of the portfolios table; balance is that of the first row
    settings,    \* get_settings(): the limits and the TTL read from the environment at startup
    now,         \* the wall clock, time.time() and datetime.now(), in seconds
    rate_limit_store,  \* _rate_limit_store: key -> deque of the admitted timestamps
    market_cache,      \* _market_cache: data (0 is None) and timestamp (-1 is None)
    gm,          \* the get_markets requests waiting on their upstream fetch
    fetches,     \* number of upstream fetches issued so far; a fetch's number names its result
    gev,         \* the last step a gated handler took, with the state it ran in
    fetchStarted,  \* for each upstream fetch issued, the time its request read at main.py:127
    admitLog,    \* key -> the admitted timestamps no older than the window at the last attempt
    lastDenied,  \* key -> whether the key's latest attempt was rejected
    feed,        \* the markets of the events the upstream /events endpoint returns
    pipe         \* the last result of the market pipeline: normalized or ranked markets

ledgerVars == <<balance, trades, up, resp, reported, portfolios>>

gateVars ==
    <<settings, now, rate_limit_store, market_cache, gm, fetches, gev, admitLog, lastDenied,
      fetchStarted>>

pipeVars == <<feed, pipe>>

vars == <<balance, trades, up, resp, reported, portfolios,
          settings, now, rate_limit_store, market_cache, gm, fetches, gev, admitLog,
          lastDenied, fetchStarted, feed, pipe>>

-----------------------------------------------------------------------------
(* Program constants *)

\* config.py:12  initial_balance: float = 100000.0, in cents
initial_balance == 10000000

\* schemas.py:53  amount: Field(gt=0, le=1000000), in mills
AmountMaxMills == 1000000000

\* schemas.py:60  if v < 1: raise ValueError('Minimum trade amount is $1'), in mills
AmountMinMills == 1000

\* schemas.py:55  price: Field(ge=0.0, le=1.0), in thousandths
PriceMax == 1000

\* polymarket_service.py:26  return 0.5, 0.5
HalfPrice == 500

\* main.py:121, main.py:159  window_seconds=60
WindowSeconds == 60

\* main.py:39  deque(maxlen=100)
DequeMaxLen == 100

\* config.py:19  cache_ttl: int = 60
CacheTtl == 60

\* polymarket_service.py:53  max(0.001, min(0.999, yes_price)), in thousandths
PriceFloor == 1

PriceCeil == 999

\* market_analyzer.py:27  float(market.get("spread") or 0.05), in thousandths
ScorerSpreadDefault == 50

\* datetime.timedelta.days: seconds in a day
DaySeconds == 86400

-----------------------------------------------------------------------------
(* Bounds of the model *)

\* The clock advances TickSeconds at a time and stops at MaxTime
TickSeconds == 30

MaxTime == 90

\* Settings are read from the environment (config.py:6-23); the limits are
\* checked from 1 up to these
MaxLimitMarkets == 2

MaxLimitAnalyze == 1

\* get_markets requests in flight at once, and upstream fetches in a run
MaxInFlight == 2

MaxFetches == 3

\* Markets in one upstream payload
MaxBatch == 2

-----------------------------------------------------------------------------
(* Upstream JSON values, as far as the parsing code tells them apart *)

JNum(n) == [k |-> "num", v |-> n]

\* a string float() rejects
JStr == [k |-> "str", v |-> 0]

JNull == [k |-> "null", v |-> 0]

OutcomeList(items) == [k |-> "list", items |-> items]

OutcomeMissing == [k |-> "missing", items |-> <<>>]

OutcomeBadJson == [k |-> "badjson", items |-> <<>>]

\* float(x) of polymarket_service.py:21-22: a number converts, a non-numeric
\* string raises ValueError, None raises TypeError
FloatOf(x) ==
    CASE x.k = "num" -> [err |-> "none", v |-> x.v]
      [] x.k = "str" -> [err |-> "ValueError", v |-> 0]
      [] OTHER       -> [err |-> "TypeError", v |-> 0]

\* parse_outcome_prices: (yes, no) of the outcome list; ValueError, IndexError
\* and JSONDecodeError fall back to (0.5, 0.5); a TypeError is not caught
parse_outcome_prices(raw) ==
    IF raw.k # "list" \/ Len(raw.items) = 0
    THEN [raises |-> FALSE, yes |-> HalfPrice, no |-> HalfPrice]
    ELSE LET y == FloatOf(raw.items[1])
             n == IF Len(raw.items) > 1 THEN FloatOf(raw.items[2])
                  ELSE [err |-> "none", v |-> PriceMax - y.v]
         IN  IF y.err = "TypeError" \/ (y.err = "none" /\ n.err = "TypeError")
             THEN [raises |-> TRUE, yes |-> 0, no |-> 0]
             ELSE IF y.err = "ValueError" \/ n.err = "ValueError"
             THEN [raises |-> FALSE, yes |-> HalfPrice, no |-> HalfPrice]
             ELSE [raises |-> FALSE, yes |-> y.v, no |-> n.v]

\* a JSON object or array where a number is expected
JObj == [k |-> "obj", v |-> 0]

\* float(x or default), polymarket_service.py:77-89 and market_analyzer.py:23-37:
\* None and 0 give the default; anything else goes to float()
FloatOr(x, default) ==
    IF x.k = "null" \/ (x.k = "num" /\ x.v = 0) THEN [err |-> "none", v |-> default]
    ELSE FloatOf(x)

\* A market of the upstream /events or /markets payload with the fields of its
\* event the code reads (commentCount, featured), every field absent.  null
\* stands for a key that is missing or None: market.get() gives None for both.
\* volume1wk, oneHourPriceChange, oneMonthPriceChange and competitive are
\* converted the way volume is and are left out.
BaseMarket ==
    [conditionId |-> "", active |-> TRUE, acceptingOrders |-> TRUE,
     lastTradePrice |-> JNull, bestBid |-> JNull, bestAsk |-> JNull,
     outcomePrices |-> OutcomeMissing, volume |-> JNull, volume24hr |-> JNull,
     liquidity |-> JNull, spread |-> JNull, oneDayPriceChange |-> JNull,
     oneWeekPriceChange |-> JNull, commentCount |-> JNull, featured |-> FALSE,
     endDate |-> JNull]

\* polymarket_service.py:46  elif outcome_prices_raw: a non-empty list or string
Truthy(raw) == raw.k = "badjson" \/ (raw.k = "list" /\ Len(raw.items) > 0)

\* polymarket_service.py:37-50  the price sources in their order; prices in
\* thousandths, bids and asks in the records at even thousandths
resolve_price(market) ==
    IF market.lastTradePrice.k # "null"
    THEN LET f == FloatOf(market.lastTradePrice)
         IN  [raises |-> f.err # "none", yes |-> f.v, no |-> PriceMax - f.v]
    ELSE IF market.bestBid.k # "null" /\ market.bestAsk.k # "null"
    THEN LET b == FloatOf(market.bestBid)
             a == FloatOf(market.bestAsk)
         IN  [raises |-> b.err # "none" \/ a.err # "none",
              yes |-> (b.v + a.v) \div 2, no |-> PriceMax - (b.v + a.v) \div 2]
    ELSE IF Truthy(market.outcomePrices)
    THEN parse_outcome_prices(market.outcomePrices)
    ELSE [raises |-> FALSE, yes |-> HalfPrice, no |-> HalfPrice]

Min2(a, b) == IF a < b THEN a ELSE b

Max2(a, b) == IF a > b THEN a ELSE b

\* Mutant: the resolved price is passed on as it is
Clamp_None(yes_price) == yes_price

\* polymarket_service.py:53  max(0.001, min(0.999, yes_price))
Clamp(yes_price) == Max2(PriceFloor, Min2(PriceCeil, yes_price))

\* polymarket_service.py:57-66 and market_analyzer.py:41-49: whole days from t to
\* the end date, not below 0; None without an end date or with one that does
\* not parse (-1 here)
DaysUntil(endDate, t) ==
    IF endDate.k = "num" THEN Max2(0, (endDate.v - t) \div DaySeconds) ELSE -1

\* polymarket_service.py:29-96  _parse_market: the snapshot, or the exception
\* the first failing float() or int() raises
parse_market(market, t) ==
    LET price == resolve_price(market)
        conv  == << IF market.bestBid.k # "null" THEN FloatOf(market.bestBid)
                    ELSE [err |-> "none", v |-> 0],
                    IF market.bestAsk.k # "null" THEN FloatOf(market.bestAsk)
                    ELSE [err |-> "none", v |-> 0],
                    FloatOr(market.volume, 0),
                    FloatOr(market.volume24hr, 0),
                    FloatOr(market.liquidity, 0),
                    FloatOr(market.spread, 0),
                    FloatOr(market.oneDayPriceChange, 0),
                    FloatOr(market.oneWeekPriceChange, 0),
                    FloatOr(market.commentCount, 0) >>
    IN  IF price.raises \/ \E j \in 1..Len(conv) : conv[j].err # "none"
        THEN [raises |-> TRUE, id |-> "", yes_price |-> 0, no_price |-> 0, volume |-> 0,
              volume_24h |-> 0, liquidity |-> 0, spread |-> 0, one_day_change |-> 0,
              one_week_change |-> 0, comment_count |-> 0, days_until_resolution |-> -1]
        ELSE [raises |-> FALSE, id |-> market.conditionId,
              yes_price |-> Clamp(price.yes),
              no_price |-> PriceMax - Clamp(price.yes),
              volume |-> conv[3].v, volume_24h |-> conv[4].v, liquidity |-> conv[5].v,
              spread |-> conv[6].v, one_day_change |-> conv[7].v,
              one_week_change |-> conv[8].v, comment_count |-> conv[9].v,
              days_until_resolution |-> DaysUntil(market.endDate, t)]

\* polymarket_service.py:119-128  the loop of fetch_active_markets over the
\* markets of the events: the active ones, normalized in order; an exception of
\* _parse_market leaves the loop and the function
ParsedBatch(markets, t) ==
    LET act == SelectSeq(markets, LAMBDA m : m.active)
    IN  IF \E j \in 1..Len(act) : parse_market(act[j], t).raises
        THEN [raises |-> TRUE, markets |-> <<>>]
        ELSE [raises |-> FALSE, markets |-> [j \in 1..Len(act) |-> parse_market(act[j], t)]]

\* The market records a refresh of the ledger may be answered with
LedgerMarkets ==
    { [BaseMarket EXCEPT !.outcomePrices = OutcomeList(<<JNum(0), JNum(1000)>>)],
      [BaseMarket EXCEPT !.outcomePrices = OutcomeList(<<JNull>>)],
      [BaseMarket EXCEPT !.lastTradePrice = JNum(730),
                         !.outcomePrices = OutcomeList(<<JNum(600), JNum(400)>>)] }

\* What the two GETs of get_market_by_id may end in: an httpx exception, no
\* market (non-200, or a list without the conditionId), or the market record
UpstreamMarket ==
    { [kind |-> "exception", market |-> BaseMarket],
      [kind |-> "absent", market |-> BaseMarket] }
    \cup { [kind |-> "market", market |-> m] : m \in LedgerMarkets }

\* get_market_by_id: the {yes_price, no_price} dict, None, or an exception.
\* polymarket_service.py:184,194: a record without outcomePrices is read as
\* ["0.5", "0.5"]
get_market_by_id(u) ==
    IF u.kind = "exception" THEN [kind |-> "exception", yes_price |-> 0, no_price |-> 0]
    ELSE IF u.kind = "absent" THEN [kind |-> "none", yes_price |-> 0, no_price |-> 0]
    ELSE LET p == parse_outcome_prices(
                      IF u.market.outcomePrices.k = "missing"
                      THEN OutcomeList(<<JNum(HalfPrice), JNum(HalfPrice)>>)
                      ELSE u.market.outcomePrices)
         IN  IF p.raises THEN [kind |-> "exception", yes_price |-> 0, no_price |-> 0]
             ELSE [kind |-> "market", yes_price |-> p.yes, no_price |-> p.no]

-----------------------------------------------------------------------------
(* Requests to POST /simulate-trade *)

TradeRequest(m, a, d, p) ==
    [market_id |-> m, market_question |-> "q", amount |-> a, direction |-> d, price |-> p]

\* The request bodies tried: amounts in mills.  Three pass the schema; the
\* others break one rule of it each
RawTradeRequests ==
    { TradeRequest("m1", 40000000, "YES", 400),
      TradeRequest("m2", 60000000, "NO", 400),
      TradeRequest("m1", 60000005, "YES", 0),
      TradeRequest("m1", 0, "YES", 400),
      TradeRequest("m1", 999, "NO", 400),
      TradeRequest("m2", 1000000001, "YES", 400),
      TradeRequest("m1", 40000000, "MAYBE", 400),
      TradeRequest("m1", 40000000, "YES", 1001) }

\* round(v, 2) of schemas.py:63, mills to cents.  A value half way between two
\* cents has no exact double, and round() goes by the double: either neighbour
Round2(mills) ==
    LET lo == mills \div 10
        r  == mills % 10
    IN  IF r < 5 THEN {lo} ELSE IF r > 5 THEN {lo + 1} ELSE {lo, lo + 1}

\* Mutant: the validator's minimum of $1 left out
SchemaErrors_NoMinimum(raw) ==
    (IF raw.amount <= 0 \/ raw.amount > AmountMaxMills THEN {"amount"} ELSE {})
    \cup (IF raw.direction \notin {"YES", "NO"} THEN {"direction"} ELSE {})
    \cup (IF raw.price < 0 \/ raw.price > PriceMax THEN {"price"} ELSE {})

\* SimulateTradeRequest: the fields pydantic rejects (schemas.py:50-70)
SchemaErrors(raw) ==
    (IF raw.amount <= 0 \/ raw.amount > AmountMaxMills \/ raw.amount < AmountMinMills
     THEN {"amount"} ELSE {})
    \cup (IF raw.direction \notin {"YES", "NO"} THEN {"direction"} ELSE {})
    \cup (IF raw.price < 0 \/ raw.price > PriceMax THEN {"price"} ELSE {})

-----------------------------------------------------------------------------
(* The ledger *)

NoRequest == [market_id |-> "", market_question |-> "", amount |-> 0,
              direction |-> "", price |-> 0]

\* A quotient of integers in lowest terms, for the divisions of main.py:283-285
RECURSIVE Gcd(_, _)
Gcd(a, b) == IF b = 0 THEN a ELSE Gcd(b, a % b)

Abs(x) == IF x < 0 THEN -x ELSE x

Rat(n, d) ==
    LET g == Gcd(Abs(n), Abs(d))
        sg == IF d < 0 THEN -1 ELSE 1
    IN  [num |-> sg * (n \div g), den |-> sg * (d \div g)]

RatAdd(x, y) == Rat(x.num * y.den + y.num * x.den, x.den * y.den)

\* n * k / d, the quotient reduced before the product is taken
RatOf(n, k, d) ==
    LET r == Rat(n, d)
        g == Gcd(Abs(k), r.den)
    IN  [num |-> r.num * (k \div g), den |-> r.den \div g]

RatZero == [num |-> 0, den |-> 1]

NoResp == [op |-> "none", outcome |-> "", errors |-> {}, raw |-> NoRequest,
           req |-> NoRequest, pre_balance |-> 0, pre_trades |-> <<>>, pre_count |-> 0,
           new_balance |-> 0, updated_count |-> 0, total |-> 0,
           loaded |-> <<>>, fetched |-> {}, active_trades |-> <<>>, total_pnl |-> RatZero,
           calc |-> [amount |-> 0, price |-> 0, shares |-> 0, potential_return |-> 0],
           pre_portfolios |-> 0]

UpIdle == [pc |-> "idle", loaded |-> <<>>, i |-> 1, count |-> 0, dirty |-> {}]

RECURSIVE SumAmounts(_)
SumAmounts(ts) == IF ts = <<>> THEN 0 ELSE ts[1].amount + SumAmounts(Tail(ts))

\* Mutant: the debit written from the balance cached at startup, not relative
Debit_FromCached(bal, amount) == initial_balance - amount

\* Mutant: the trade is inserted and the debit left out
Debit_Omitted(bal, amount) == bal

\* main.py:243  portfolio.balance = Portfolio.balance - request.amount,
\* the UPDATE evaluated on the row at commit
Debit(bal, amount) == bal - amount

\* Mutant: current_price left unset (0) when the trade is created
NewTrade_NoCurrentPrice(req, id) ==
    [id |-> id, market_id |-> req.market_id, market_question |-> req.market_question,
     direction |-> req.direction, amount |-> req.amount, entry_price |-> req.price,
     current_price |-> 0, status |-> "ACTIVE"]

\* main.py:230-238  Trade(...); the id is assigned by the table on insert
NewTrade(req, id) ==
    [id |-> id, market_id |-> req.market_id, market_question |-> req.market_question,
     direction |-> req.direction, amount |-> req.amount, entry_price |-> req.price,
     current_price |-> req.price, status |-> "ACTIVE"]

\* Mutant: the balance check left out
TradeOutcome_NoBalanceCheck(req, bal) ==
    IF req.amount <= 0 THEN "InvalidAmount"
    ELSE IF req.direction \notin {"YES", "NO"} THEN "InvalidDirection"
    ELSE "ok"

\* Mutant: the amount compared with the configured balance, not the current one
TradeOutcome_InitialBalance(req, bal) ==
    IF req.amount <= 0 THEN "InvalidAmount"
    ELSE IF req.amount > initial_balance THEN "InsufficientBalance"
    ELSE IF req.direction \notin {"YES", "NO"} THEN "InvalidDirection"
    ELSE "ok"

\* main.py:215-227  the checks of simulate_trade, in their order
TradeOutcome(req, bal) ==
    IF req.amount <= 0 THEN "InvalidAmount"
    ELSE IF req.amount > bal THEN "InsufficientBalance"
    ELSE IF req.direction \notin {"YES", "NO"} THEN "InvalidDirection"
    ELSE "ok"

\* POST /simulate-trade: pydantic builds the SimulateTradeRequest or answers 422;
\* the handler checks, inserts the trade and debits in one commit
simulate_trade(raw) ==
    /\ UNCHANGED <<gateVars, pipeVars>>
    /\ UNCHANGED <<up, portfolios>>
    /\ IF SchemaErrors(raw) # {}
       THEN /\ resp' = [NoResp EXCEPT !.op = "place", !.outcome = "ValidationError",
                                      !.errors = SchemaErrors(raw), !.raw = raw,
                                      !.pre_balance = balance, !.pre_trades = trades,
                                      !.new_balance = balance]
            /\ UNCHANGED <<balance, trades, reported>>
       ELSE \E amt \in Round2(raw.amount) :
              LET req == [raw EXCEPT !.amount = amt]
                  out == TradeOutcome(req, balance)
              IN  IF out # "ok"
                  THEN /\ resp' = [NoResp EXCEPT !.op = "place", !.outcome = out,
                                                 !.raw = raw, !.req = req,
                                                 !.pre_balance = balance,
                                                 !.pre_trades = trades,
                                                 !.new_balance = balance]
                       /\ UNCHANGED <<balance, trades, reported>>
                  ELSE /\ trades' = Append(trades, NewTrade(req, Len(trades) + 1))
                       /\ balance' = Debit(balance, req.amount)
                       /\ reported' = reported + req.amount
                       /\ resp' = [NoResp EXCEPT !.op = "place", !.outcome = "ok",
                                                 !.raw = raw, !.req = req,
                                                 !.pre_balance = balance,
                                                 !.pre_trades = trades,
                                                 !.new_balance = balance']

\* main.py:306  portfolio.balance = settings.initial_balance
ResetBalance == initial_balance

\* Mutant: the delete left out
ResetTrades_Kept(ts) == ts

\* main.py:307  db.query(Trade).delete(): every row, whatever its status
ResetTrades(ts) == <<>>

\* POST /reset-portfolio
reset_portfolio ==
    /\ UNCHANGED <<gateVars, pipeVars>>
    /\ balance' = ResetBalance
    /\ trades' = ResetTrades(trades)
    /\ reported' = 0
    /\ resp' = [NoResp EXCEPT !.op = "reset", !.outcome = "ok",
                              !.pre_balance = balance, !.pre_count = Len(trades),
                              !.new_balance = ResetBalance]
    /\ UNCHANGED <<up, portfolios>>

ActiveTrades(ts) == SelectSeq(ts, LAMBDA t : t.status = "ACTIVE")

\* POST /update-prices, main.py:319: the session loads the ACTIVE trades
update_trade_prices_load ==
    /\ up.pc = "idle"
    /\ up' = [pc |-> IF ActiveTrades(trades) = <<>> THEN "commit" ELSE "loop",
              loaded |-> [j \in 1..Len(ActiveTrades(trades)) |->
                             [id |-> ActiveTrades(trades)[j].id,
                              direction |-> ActiveTrades(trades)[j].direction,
                              current_price |-> ActiveTrades(trades)[j].current_price]],
              i |-> 1, count |-> 0, dirty |-> {}]
    /\ UNCHANGED <<balance, trades, resp, reported, portfolios>>
    /\ UNCHANGED <<gateVars, pipeVars>>

\* main.py:326  the side of the market the trade holds
NewPrice(trade, market) ==
    IF trade.direction = "YES" THEN market.yes_price ELSE market.no_price

\* The price the Normalizer gives the side the trade holds for the record the
\* fetch returned; -1 when _parse_market raises on it
SnapshotPrice(trade, u) ==
    LET m == parse_market(u.market, now)
    IN  IF m.raises THEN -1
        ELSE IF trade.direction = "YES" THEN m.yes_price ELSE m.no_price

\* Mutant: a trade whose fetch gave nothing is counted as updated
LoopTurn_CountsAll(u_p, trade, u) ==
    LET market == get_market_by_id(u)
        next   == IF u_p.i = Len(u_p.loaded) THEN "commit" ELSE "loop"
    IN  IF market.kind = "market"
        THEN [u_p EXCEPT !.pc = next, !.i = @ + 1, !.count = @ + 1,
                !.dirty = {d \in @ : d.id # trade.id}
                          \cup {[id |-> trade.id, was |-> trade.current_price,
                                 price |-> NewPrice(trade, market),
                                 snapshot |-> SnapshotPrice(trade, u)]}]
        ELSE [u_p EXCEPT !.pc = next, !.i = @ + 1, !.count = @ + 1]

\* main.py:323-331  the body of the loop for one trade: a market sets the
\* trade's price and counts it; None and an exception leave both alone
LoopTurn(u_p, trade, u) ==
    LET market == get_market_by_id(u)
        next   == IF u_p.i = Len(u_p.loaded) THEN "commit" ELSE "loop"
    IN  IF market.kind = "market"
        THEN [u_p EXCEPT !.pc = next, !.i = @ + 1, !.count = @ + 1,
                !.dirty = {d \in @ : d.id # trade.id}
                          \cup {[id |-> trade.id, was |-> trade.current_price,
                                 price |-> NewPrice(trade, market),
                                 snapshot |-> SnapshotPrice(trade, u)]}]
        ELSE [u_p EXCEPT !.pc = next, !.i = @ + 1]

\* main.py:322-331: one turn of the loop, resumed when its fetch returns
update_trade_prices_fetch(u) ==
    /\ up.pc = "loop"
    /\ up' = LoopTurn(up, up.loaded[up.i], u)
    /\ UNCHANGED <<balance, trades, resp, reported, portfolios>>
    /\ UNCHANGED <<gateVars, pipeVars>>

\* The rows the flush of main.py:333 writes: an attribute set to the value it
\* was loaded with is no change
Flushed(dirty) == {d \in dirty : d.price # d.was}

TradeIds(ts) == {ts[j].id : j \in 1..Len(ts)}

\* Mutant: the refresh overwrites the entry price as well
WriteRow_EntryToo(trade, d) == [trade EXCEPT !.current_price = d.price, !.entry_price = d.price]

\* main.py:327  trade.current_price = new_price, the one attribute the refresh
\* sets and so the one column its UPDATE writes
WriteRow(trade, d) == [trade EXCEPT !.current_price = d.price]

\* main.py:333-338: db.commit() flushes one UPDATE per changed trade, by id; an
\* UPDATE that matches no row raises StaleDataError and the session rolls back
update_trade_prices_commit ==
    /\ up.pc = "commit"
    /\ up' = UpIdle
    /\ UNCHANGED <<balance, reported, portfolios>>
    /\ UNCHANGED <<gateVars, pipeVars>>
    /\ IF \A d \in Flushed(up.dirty) : d.id \in TradeIds(trades)
       THEN /\ trades' = [j \in 1..Len(trades) |->
                            IF \E d \in Flushed(up.dirty) : d.id = trades[j].id
                            THEN WriteRow(trades[j],
                                          CHOOSE d \in Flushed(up.dirty) : d.id = trades[j].id)
                            ELSE trades[j]]
            /\ resp' = [NoResp EXCEPT !.op = "update", !.outcome = "ok",
                                      !.pre_balance = balance, !.pre_trades = trades,
                                      !.new_balance = balance,
                                      !.updated_count = up.count,
                                      !.total = Len(up.loaded),
                                      !.loaded = up.loaded, !.fetched = up.dirty]
       ELSE /\ trades' = trades
            /\ resp' = [NoResp EXCEPT !.op = "update", !.outcome = "StaleDataError",
                                      !.pre_balance = balance, !.pre_trades = trades,
                                      !.new_balance = balance,
                                      !.loaded = up.loaded, !.fetched = up.dirty]

\* main.py:281-287  the theoretical PnL of a trade, in cents; `if t.current_price
\* and t.entry_price` is false for None and for 0.0
Pnl(t) ==
    IF t.current_price # 0 /\ t.entry_price # 0
    THEN IF t.direction = "YES"
         THEN RatOf(t.current_price - t.entry_price, t.amount, t.entry_price)
         ELSE RatOf(t.entry_price - t.current_price, t.amount, t.entry_price)
    ELSE RatZero

\* main.py:290-294  TradeInfo(...)
TradeInfoOf(t) ==
    [id |-> t.id, market_id |-> t.market_id, direction |-> t.direction,
     amount |-> t.amount, entry_price |-> t.entry_price,
     current_price |-> t.current_price, status |-> t.status, pnl |-> Pnl(t)]

RECURSIVE SumPnl(_)
\* Mutant: the aggregate takes the first trade only
SumPnl_FirstOnly(infos) == IF infos = <<>> THEN RatZero ELSE infos[1].pnl

\* main.py:278,288  total_pnl += pnl over the trades returned
SumPnl(infos) ==
    IF infos = <<>> THEN RatZero
    ELSE RatAdd(SumPnl(SubSeq(infos, 1, Len(infos) - 1)), infos[Len(infos)].pnl)

\* GET /portfolio, main.py:268-296: reads the balance and the ACTIVE trades
get_portfolio ==
    LET infos == [j \in 1..Len(ActiveTrades(trades)) |-> TradeInfoOf(ActiveTrades(trades)[j])]
    IN  /\ resp' = [NoResp EXCEPT !.op = "portfolio", !.outcome = "ok",
                                  !.pre_balance = balance, !.pre_trades = trades,
                                  !.new_balance = balance,
                                  !.active_trades = infos, !.total_pnl = SumPnl(infos)]
        /\ UNCHANGED <<balance, trades, up, reported, portfolios>>
        /\ UNCHANGED <<gateVars, pipeVars>>

\* schemas.py:150-153  CalculateReturnRequest: amount in mills, price in
\* per-mille
CalculateReturnRequest(a, p) == [amount |-> a, price |-> p]

\* The bodies tried: the quotients 400, 1/3, 2/3, 0.125 (half way between two
\* cents), 1/128 = 0.0078125 (half way between two millionths) and 1; three
\* bodies the schema refuses
CalculateReturnRequests ==
    { CalculateReturnRequest(100000, 250),
      CalculateReturnRequest(1000, 3),
      CalculateReturnRequest(2, 3),
      CalculateReturnRequest(125, 1000),
      CalculateReturnRequest(1, 128),
      CalculateReturnRequest(1000, 1000),
      CalculateReturnRequest(0, 250),
      CalculateReturnRequest(1000, 0),
      CalculateReturnRequest(1000, 1001) }

\* schemas.py:152-153  amount: Field(gt=0), price: Field(gt=0, le=1.0)
CalculateReturnErrors(request) ==
    (IF request.amount <= 0 THEN {"amount"} ELSE {})
    \cup (IF request.price <= 0 \/ request.price > PriceMax THEN {"price"} ELSE {})

RECURSIVE DecimalDivide(_, _, _)
\* main.py:350  amount / price carried to k decimal places by long division:
\* the digits q and the remainder r left over d
DecimalDivide(n, d, k) ==
    IF k = 0 THEN [q |-> n \div d, r |-> n % d]
    ELSE LET prev == DecimalDivide(n, d, k - 1)
         IN  [q |-> prev.q * 10 + (prev.r * 10) \div d, r |-> (prev.r * 10) % d]

\* Mutant: ROUND_HALF_EVEN, a half goes to the even neighbour
quantize_HalfEven(q, r, d) ==
    IF 2 * r > d \/ (2 * r = d /\ q % 2 = 1) THEN q + 1 ELSE q

\* main.py:350, 353  quantize(..., rounding=ROUND_HALF_UP) of q + r/d to a
\* whole number of units: a half or more goes up
quantize(q, r, d) == IF 2 * r >= d THEN q + 1 ELSE q

\* main.py:350  shares in millionths
Shares(request) ==
    LET full == DecimalDivide(request.amount, request.price, 6)
    IN  quantize(full.q, full.r, request.price)

\* main.py:353  potential_return in cents, rounded from the six-place shares
PotentialReturn(shares) == quantize(shares \div 10000, shares % 10000, 10000)

\* POST /calculate-return, main.py:341-359: no database session, no await
calculate_potential_return(request) ==
    LET errors == CalculateReturnErrors(request)
    IN  /\ resp' = IF errors # {}
                   THEN [NoResp EXCEPT !.op = "return", !.outcome = "ValidationError",
                                       !.errors = errors,
                                       !.pre_balance = balance, !.pre_trades = trades,
                                       !.calc = [amount |-> request.amount,
                                                 price |-> request.price,
                                                 shares |-> 0, potential_return |-> 0]]
                   ELSE [NoResp EXCEPT !.op = "return", !.outcome = "ok",
                                       !.pre_balance = balance, !.pre_trades = trades,
                                       !.calc = [amount |-> request.amount,
                                                 price |-> request.price,
                                                 shares |-> Shares(request),
                                                 potential_return |->
                                                     PotentialReturn(Shares(request))]]
        /\ UNCHANGED <<balance, trades, up, reported, portfolios>>
        /\ UNCHANGED <<gateVars, pipeVars>>

\* database.py  init_db(): creates the tables that are not there and leaves
\* the rows of those that are
init_db(rows) == rows

\* Mutant: startup adds a portfolio whether or not there is one
Startup_Always(count, bal) ==
    [count |-> count + 1, balance |-> IF count = 0 THEN initial_balance ELSE bal]

\* main.py:77-82  the portfolios table after startup: a row with the configured
\* balance is inserted only when db.query(Portfolio).first() finds none
Startup(count, bal) ==
    IF count = 0 THEN [count |-> 1, balance |-> initial_balance]
    ELSE [count |-> count, balance |-> bal]

\* main.py:69-89  lifespan, the startup of a server process on the database as
\* it is.  The body has no await.  A refresh in flight belongs to the process
\* before: it is gone with it, or that process is still running
lifespan ==
    /\ portfolios' = Startup(portfolios, balance).count
    /\ balance' = Startup(portfolios, balance).balance
    /\ trades' = init_db(trades)
    /\ up' \in {up, UpIdle}
    /\ resp' = [NoResp EXCEPT !.op = "startup", !.outcome = "ok",
                              !.pre_balance = balance, !.pre_trades = trades,
                              !.pre_portfolios = portfolios, !.new_balance = balance']
    /\ UNCHANGED reported
    /\ UNCHANGED <<gateVars, pipeVars>>

-----------------------------------------------------------------------------
(* The admission and caching gate *)

\* The client identities get_client_ip returns for the requests tried
Clients == {"a", "b"}

\* What get_client_ip reads of an HTTP request: the entries of its
\* X-Forwarded-For header (none when the header is absent or empty) and the
\* address of its peer ("" when request.client is None)
HttpRequest(forwarded, host) == [forwarded |-> forwarded, host |-> host]

\* The requests tried: straight from a, straight from b, and from b by way of
\* the proxy a
GateRequests ==
    { HttpRequest(<<>>, "a"), HttpRequest(<<>>, "b"), HttpRequest(<<"b", "a">>, "a") }

\* main.py:61-66  get_client_ip: the first entry of X-Forwarded-For, else the
\* peer's address, else "unknown"
get_client_ip(request) ==
    IF request.forwarded # <<>> THEN request.forwarded[1]
    ELSE IF request.host # "" THEN request.host
    ELSE "unknown"

Endpoints == {"markets", "analyze"}

\* Mutant: the key is the client alone
Key_ClientOnly(client_ip, endpoint) == <<client_ip, "markets">>

\* main.py:43  key = f"{client_ip}:{endpoint}"; the endpoint is one of two
\* literals, so different pairs give different strings
Key(client_ip, endpoint) == <<client_ip, endpoint>>

Keys == {Key(c, e) : c \in Clients, e \in Endpoints}

\* Mutant: expired entries are never removed
Evict_Never(requests, window_start) == requests

RECURSIVE Evict(_, _)
\* main.py:50-51  while requests and requests[0] < window_start: popleft()
Evict(requests, window_start) ==
    IF requests # <<>> /\ requests[1] < window_start
    THEN Evict(Tail(requests), window_start)
    ELSE requests

\* Mutant: the append leaves the deque as it was
DequeAppend_Dropped(requests, x) == requests

\* deque.append of a deque(maxlen=100), main.py:39,58: a full deque drops its
\* oldest entry
DequeAppend(requests, x) ==
    IF Len(requests) >= DequeMaxLen THEN Append(Tail(requests), x)
    ELSE Append(requests, x)

\* Mutant: a rejected request is recorded too
check_rate_limit_RecordsRejected(requests, t, max_requests, window_seconds) ==
    LET kept == Evict(requests, t - window_seconds)
    IN  [allowed |-> Len(kept) < max_requests, requests |-> DequeAppend(kept, t)]

\* Mutant: an admitted request is not recorded
check_rate_limit_Unrecorded(requests, t, max_requests, window_seconds) ==
    LET kept == Evict(requests, t - window_seconds)
    IN  [allowed |-> Len(kept) < max_requests, requests |-> kept]

\* main.py:41-59  check_rate_limit: the deque it leaves and its answer.  It is
\* a plain function without an await: the event loop runs it in one piece
check_rate_limit(requests, t, max_requests, window_seconds) ==
    LET kept == Evict(requests, t - window_seconds)
    IN  IF Len(kept) >= max_requests
        THEN [allowed |-> FALSE, requests |-> kept]
        ELSE [allowed |-> TRUE, requests |-> DequeAppend(kept, t)]

\* The admitted timestamps of a log that lie in [t - window_seconds, t]
InWindow(log, t, window_seconds) ==
    SelectSeq(log, LAMBDA x : x >= t - window_seconds /\ x <= t)

NoCache == [data |-> 0, timestamp |-> -1]

\* Mutant: the age test inverted
CacheFresh_Inverted(cache, t, ttl) ==
    cache.data # 0 /\ cache.timestamp # -1 /\ t - cache.timestamp > ttl

\* main.py:130-132  the entry is there and younger than the TTL
CacheFresh(cache, t, ttl) ==
    cache.data # 0 /\ cache.timestamp # -1 /\ t - cache.timestamp < ttl

GmIdle == [pc |-> "idle", client |-> "", now |-> 0, fetch |-> 0]

NoGev == [op |-> "none", client |-> "", outcome |-> "", at |-> 0, data |-> 0,
          allowed |-> FALSE, max_requests |-> 0, prior |-> 0, was_denied |-> FALSE,
          pre_requests |-> <<>>, pre_cache |-> NoCache, pre_fetches |-> 0,
          fetch_ok |-> FALSE,
          prev |-> [op |-> "none", fetch_ok |-> FALSE, outcome |-> "", at |-> 0]]

\* The limiter's part of a gated step: the key's deque, the log of admitted
\* timestamps and the record of the attempt
Attempt(client, endpoint, max_requests) ==
    LET key == Key(client, endpoint)
        r   == check_rate_limit(rate_limit_store[key], now, max_requests, WindowSeconds)
        log == InWindow(admitLog[key], now, WindowSeconds)
    IN  [allowed |-> r.allowed,
         store |-> [rate_limit_store EXCEPT ![key] = r.requests],
         log |-> [admitLog EXCEPT ![key] = IF r.allowed THEN Append(log, now) ELSE log],
         denied |-> [lastDenied EXCEPT ![key] = ~r.allowed],
         gev |-> [NoGev EXCEPT !.op = endpoint, !.client = client, !.at = now,
                               !.allowed = r.allowed, !.max_requests = max_requests,
                               !.prior = Len(log), !.was_denied = lastDenied[key],
                               !.pre_requests = rate_limit_store[key],
                               !.pre_cache = market_cache, !.pre_fetches = fetches,
                               !.prev = [op |-> gev.op, fetch_ok |-> gev.fetch_ok,
                                         outcome |-> gev.outcome, at |-> gev.at]]]

\* GET /markets up to its await, main.py:117-137: the limiter, then the cache;
\* a request that finds no fresh entry issues the upstream fetch and waits
get_markets_begin(slot, client) ==
    LET a == Attempt(client, "markets", settings.rate_limit_markets)
    IN  /\ gm[slot].pc = "idle"
        /\ (a.allowed /\ ~CacheFresh(market_cache, now, settings.cache_ttl))
              => fetches < MaxFetches
        /\ rate_limit_store' = a.store
        /\ admitLog' = a.log
        /\ lastDenied' = a.denied
        /\ UNCHANGED <<settings, now, market_cache>>
        /\ UNCHANGED <<ledgerVars, pipeVars>>
        /\ IF ~a.allowed
           THEN /\ gev' = [a.gev EXCEPT !.outcome = "429"]
                /\ UNCHANGED <<gm, fetches, fetchStarted>>
           ELSE IF CacheFresh(market_cache, now, settings.cache_ttl)
           THEN /\ gev' = [a.gev EXCEPT !.outcome = "hit", !.data = market_cache.data]
                /\ UNCHANGED <<gm, fetches, fetchStarted>>
           ELSE /\ fetches' = fetches + 1
                /\ fetchStarted' = Append(fetchStarted, now)
                /\ gm' = [gm EXCEPT ![slot] = [pc |-> "fetching", client |-> client,
                                               now |-> now, fetch |-> fetches + 1]]
                /\ gev' = [a.gev EXCEPT !.outcome = "fetching", !.data = fetches + 1]

\* Mutant: the data is replaced and the timestamp left as it was
CacheStore_DataOnly(result, t) == [data |-> result, timestamp |-> market_cache.timestamp]

\* Mutant: the fetched result is returned and the cache left as it was
CacheStore_NotWritten(result, t) == market_cache

\* main.py:141-142  the entry written after a fetch: the result, stamped with
\* the time the request read the clock at main.py:127
CacheStore(result, t) == [data |-> result, timestamp |-> t]

\* Mutant: serving the entry after a failed fetch renews its timestamp
CacheAfterFailure_Renewed(cache, t) ==
    IF cache.data # 0 THEN [cache EXCEPT !.timestamp = t] ELSE cache

\* main.py:145-149  the except branch writes nothing to the cache
CacheAfterFailure(cache, t) == cache

\* Mutant: a failed fetch always fails the caller
StaleFallback_Never(cache) == [outcome |-> "500", data |-> 0]

\* main.py:145-149  a failed fetch is answered from the entry if there is one,
\* whatever its age, and with a 500 if there is none
StaleFallback(cache) ==
    IF cache.data # 0 THEN [outcome |-> "stale", data |-> cache.data]
    ELSE [outcome |-> "500", data |-> 0]

\* GET /markets from its await on, main.py:137-149: the fetch returned its
\* result, or raised
get_markets_end(slot, ok) ==
    /\ gm[slot].pc = "fetching"
    /\ gm' = [gm EXCEPT ![slot] = GmIdle]
    /\ UNCHANGED <<settings, now, rate_limit_store, fetches, admitLog, lastDenied,
                   fetchStarted>>
    /\ UNCHANGED <<ledgerVars, pipeVars>>
    /\ IF ok
       THEN /\ market_cache' = CacheStore(gm[slot].fetch, gm[slot].now)
            /\ gev' = [NoGev EXCEPT !.op = "markets_end", !.client = gm[slot].client,
                                    !.outcome = "fresh", !.at = now,
                                    !.data = gm[slot].fetch, !.fetch_ok = TRUE,
                                    !.pre_requests =
                                        rate_limit_store[Key(gm[slot].client, "markets")],
                                    !.pre_cache = market_cache, !.pre_fetches = fetches]
       ELSE /\ market_cache' = CacheAfterFailure(market_cache, gm[slot].now)
            /\ gev' = [NoGev EXCEPT !.op = "markets_end", !.client = gm[slot].client,
                                    !.outcome = StaleFallback(market_cache).outcome,
                                    !.at = now, !.data = StaleFallback(market_cache).data,
                                    !.pre_requests =
                                        rate_limit_store[Key(gm[slot].client, "markets")],
                                    !.pre_cache = market_cache, !.pre_fetches = fetches]

\* POST /analyze, main.py:155-164: the limiter; an admitted request goes on to
\* the advisory call, which touches nothing modelled here
analyze_market(client) ==
    LET a == Attempt(client, "analyze", settings.rate_limit_analyze)
    IN  /\ rate_limit_store' = a.store
        /\ admitLog' = a.log
        /\ lastDenied' = a.denied
        /\ gev' = [a.gev EXCEPT !.outcome = IF a.allowed THEN "admitted" ELSE "429"]
        /\ UNCHANGED <<settings, now, market_cache, gm, fetches, fetchStarted>>
        /\ UNCHANGED <<ledgerVars, pipeVars>>

\* Time passes
Tick ==
    /\ now + TickSeconds <= MaxTime
    /\ now' = now + TickSeconds
    /\ UNCHANGED <<settings, rate_limit_store, market_cache, gm, fetches, gev, admitLog,
                   lastDenied, fetchStarted>>
    /\ UNCHANGED <<ledgerVars, pipeVars>>

-----------------------------------------------------------------------------
(* The market pipeline: normalizing and scoring an upstream payload *)

RECURSIVE Log10x10(_)
\* 10 * math.log10(v) for v >= 1: exact at the powers of ten the records carry
Log10x10(v) == IF v < 10 THEN 0 ELSE 10 + Log10x10(v \div 10)

\* round(x, 1), market_analyzer.py:129, of n / 100 tenths: to the nearest tenth,
\* a tie to the even one
RoundTenth(n) ==
    LET q == n \div 100
        r == n % 100
    IN  IF r < 50 THEN q
        ELSE IF r > 50 THEN q + 1
        ELSE IF q % 2 = 0 THEN q ELSE q + 1

\* market_analyzer.py:74-85  the timing score by days to resolution, in tenths
TimingScore(days) ==
    IF days = -1 THEN 500
    ELSE IF days < 1 THEN 300
    ELSE IF days < 7 THEN 1000
    ELSE IF days < 30 THEN 800
    ELSE IF days < 90 THEN 600
    ELSE 400

\* market_analyzer.py:88-90  the engagement score, in tenths
EngagementScore(comment_count, is_featured) ==
    LET e == Min2(1000, Log10x10(Max2(1, comment_count)) * 30)
    IN  IF is_featured THEN Min2(1000, e + 200) ELSE e

\* market_analyzer.py:16-139  calculate_opportunity_score at time t: the scored
\* market, or the exception of the first failing float() or int().  Scores are
\* in tenths of a point, prices, spread and changes in thousandths.
calculate_opportunity_score(market, t) ==
    LET price   == FloatOr(market.lastTradePrice, HalfPrice)
        vol24   == FloatOr(market.volume24hr, 0)
        liq     == FloatOr(market.liquidity, 0)
        spread  == FloatOr(market.spread, ScorerSpreadDefault)
        ch24    == FloatOr(market.oneDayPriceChange, 0)
        ch1w    == FloatOr(market.oneWeekPriceChange, 0)
        comm    == FloatOr(market.commentCount, 0)
        conv    == <<price, vol24, liq, spread, ch24, ch1w, comm,
                     FloatOr(market.bestBid, 0), FloatOr(market.bestAsk, 0),
                     FloatOr(market.volume, 0)>>
        momentum_score    == Min2(1000, Abs(ch24.v) * 5 + Abs(ch1w.v) * 2)
        volume_score      == Min2(1000, Log10x10(Max2(1, vol24.v)) * 15)
        liquidity_score   == Min2(1000, Log10x10(Max2(1, liq.v)) * 15)
        spread_score      == Max2(0, 1000 - spread.v * 20)
        uncertainty_score == 1000 - Abs(price.v - HalfPrice) * 2
        timing_score      == TimingScore(DaysUntil(market.endDate, t))
        engagement_score  == EngagementScore(comm.v, market.featured)
        total_score == momentum_score * 25 + volume_score * 20 + liquidity_score * 15
                       + spread_score * 10 + uncertainty_score * 15 + timing_score * 10
                       + engagement_score * 5
    IN  IF \E j \in 1..Len(conv) : conv[j].err # "none"
        THEN [raises |-> TRUE, id |-> "", yes_price |-> 0, no_price |-> 0, spread |-> 0,
              opportunity_score |-> 0,
              score_breakdown |-> [momentum |-> 0, volume |-> 0, liquidity |-> 0,
                                   spread |-> 0, uncertainty |-> 0, timing |-> 0,
                                   engagement |-> 0]]
        ELSE [raises |-> FALSE, id |-> market.conditionId,
              yes_price |-> price.v, no_price |-> PriceMax - price.v,
              spread |-> spread.v,
              opportunity_score |-> RoundTenth(total_score),
              score_breakdown |-> [momentum |-> momentum_score, volume |-> volume_score,
                                   liquidity |-> liquidity_score, spread |-> spread_score,
                                   uncertainty |-> uncertainty_score,
                                   timing |-> timing_score,
                                   engagement |-> engagement_score]]

RECURSIVE InsertByScore_Before(_, _)
\* x put in front of the entries whose score equals its own
InsertByScore_Before(x, sorted) ==
    IF sorted = <<>> THEN <<x>>
    ELSE IF sorted[1].opportunity_score > x.opportunity_score
    THEN <<sorted[1]>> \o InsertByScore_Before(x, Tail(sorted))
    ELSE <<x>> \o sorted

RECURSIVE InsertByScore(_, _)
\* x put behind the entries whose score is not below its own
InsertByScore(x, sorted) ==
    IF sorted = <<>> THEN <<x>>
    ELSE IF sorted[1].opportunity_score >= x.opportunity_score
    THEN <<sorted[1]>> \o InsertByScore(x, Tail(sorted))
    ELSE <<x>> \o sorted

RECURSIVE SortByScore(_)
\* market_analyzer.py:178  list.sort(key=opportunity_score, reverse=True): by
\* score, highest first, equal scores in the order they came in
SortByScore(scored) ==
    IF scored = <<>> THEN <<>>
    ELSE InsertByScore(scored[Len(scored)],
                       SortByScore(SubSeq(scored, 1, Len(scored) - 1)))

\* market_analyzer.py:168-179  the markets of the payload that are active and
\* accepting orders, scored, sorted, the first `limit` of them
RankedBatch(markets, limit, t) ==
    LET open   == SelectSeq(markets, LAMBDA m : m.active /\ m.acceptingOrders)
        scored == [j \in 1..Len(open) |-> calculate_opportunity_score(open[j], t)]
    IN  IF \E j \in 1..Len(scored) : scored[j].raises
        THEN [raises |-> TRUE, markets |-> <<>>]
        ELSE [raises |-> FALSE,
              markets |-> SubSeq(SortByScore(scored), 1, Min2(limit, Len(scored)))]

\* polymarket_service.py:99-128  fetch_active_markets on the payload
fetch_active_markets ==
    /\ pipe' = [op |-> "fetch", at |-> now, limit |-> 0,
                raises |-> ParsedBatch(feed, now).raises,
                markets |-> ParsedBatch(feed, now).markets]
    /\ UNCHANGED feed
    /\ UNCHANGED <<ledgerVars, gateVars>>

\* market_analyzer.py:142-179  get_top_opportunities on the payload
get_top_opportunities(limit) ==
    /\ pipe' = [op |-> "rank", at |-> now, limit |-> limit,
                raises |-> RankedBatch(feed, limit, now).raises,
                markets |-> RankedBatch(feed, limit, now).markets]
    /\ UNCHANGED feed
    /\ UNCHANGED <<ledgerVars, gateVars>>

-----------------------------------------------------------------------------
(* Specification of the ledger *)

\* main.py:69-89  lifespan: the portfolio is created with the initial balance
LedgerInit ==
    /\ balance = initial_balance
    /\ trades = <<>>
    /\ up = UpIdle
    /\ resp = NoResp
    /\ reported = 0
    /\ portfolios = 1

\* config.py:14-19  the settings a deployment may run with
SettingsChoice ==
    [rate_limit_markets : 1..MaxLimitMarkets, rate_limit_analyze : 1..MaxLimitAnalyze,
     cache_ttl : {CacheTtl}]

\* main.py:32-39  the cache and the limiter's store start empty
GateStart(cfg, t) ==
    /\ settings = cfg
    /\ now = t
    /\ rate_limit_store = [k \in Keys |-> <<>>]
    /\ market_cache = NoCache
    /\ gm = [s \in 1..MaxInFlight |-> GmIdle]
    /\ fetches = 0
    /\ gev = NoGev
    /\ admitLog = [k \in Keys |-> <<>>]
    /\ lastDenied = [k \in Keys |-> FALSE]
    /\ fetchStarted = <<>>

\* No upstream payload and no pipeline result yet
PipeIdle == [op |-> "none", at |-> 0, limit |-> 0, raises |-> FALSE, markets |-> <<>>]

PipeStart(markets) ==
    /\ feed = markets
    /\ pipe = PipeIdle

\* The ledger is checked with the gate at rest
Init ==
    /\ LedgerInit
    /\ GateStart([rate_limit_markets |-> MaxLimitMarkets,
                  rate_limit_analyze |-> MaxLimitAnalyze, cache_ttl |-> CacheTtl], 0)
    /\ PipeStart(<<>>)

Next ==
    \/ \E raw \in RawTradeRequests : simulate_trade(raw)
    \/ reset_portfolio
    \/ update_trade_prices_load
    \/ \E u \in UpstreamMarket : update_trade_prices_fetch(u)
    \/ update_trade_prices_commit
    \/ get_portfolio
    \/ \E request \in CalculateReturnRequests : calculate_potential_return(request)

Spec == Init /\ [][Next]_vars

\* The ledger from an empty database: the server answers requests once its
\* startup has run, and is started again at any time
InitBoot ==
    /\ balance = 0
    /\ trades = <<>>
    /\ up = UpIdle
    /\ resp = NoResp
    /\ reported = 0
    /\ portfolios = 0
    /\ GateStart([rate_limit_markets |-> MaxLimitMarkets,
                  rate_limit_analyze |-> MaxLimitAnalyze, cache_ttl |-> CacheTtl], 0)
    /\ PipeStart(<<>>)

NextBoot ==
    \/ lifespan
    \/ /\ resp.op # "none"
       /\ \/ \E raw \in RawTradeRequests : simulate_trade(raw)
          \/ reset_portfolio
          \/ update_trade_prices_load
          \/ \E u \in UpstreamMarket : update_trade_prices_fetch(u)
          \/ update_trade_prices_commit

SpecBoot == InitBoot /\ [][NextBoot]_vars

-----------------------------------------------------------------------------
(* Specification of the gate *)

InitGate ==
    /\ LedgerInit
    /\ \E cfg \in SettingsChoice : GateStart(cfg, 0)
    /\ PipeStart(<<>>)

\* One client calls both endpoints
GateClients == {"a"}

NextGate ==
    \/ \E slot \in 1..MaxInFlight, c \in GateClients : get_markets_begin(slot, c)
    \/ \E slot \in 1..MaxInFlight, ok \in BOOLEAN : get_markets_end(slot, ok)
    \/ \E c \in GateClients : analyze_market(c)
    \/ Tick

SpecGate == InitGate /\ [][NextGate]_vars

\* The limiter alone, its limit one above the deque's capacity
InitWide ==
    /\ LedgerInit
    /\ GateStart([rate_limit_markets |-> MaxLimitMarkets,
                  rate_limit_analyze |-> DequeMaxLen + 1, cache_ttl |-> CacheTtl],
                 MaxTime - TickSeconds)
    /\ PipeStart(<<>>)

\* Attempts stop once the log of admitted timestamps has outgrown the limit
NextWide ==
    \/ \E c \in GateClients :
          /\ Len(admitLog[Key(c, "analyze")]) <= DequeMaxLen + 1
          /\ analyze_market(c)
    \/ Tick

SpecWide == InitWide /\ [][NextWide]_vars

\* Two clients on both endpoints, over the last tick.  The upstream answers,
\* and one fetch fills the cache: the later GET /markets are cache hits
InitKeys ==
    /\ LedgerInit
    /\ GateStart([rate_limit_markets |-> MaxLimitMarkets,
                  rate_limit_analyze |-> MaxLimitAnalyze, cache_ttl |-> CacheTtl],
                 MaxTime - TickSeconds)
    /\ PipeStart(<<>>)

NextKeys ==
    \/ \E request \in GateRequests :
          /\ fetches = 0 \/ CacheFresh(market_cache, now, settings.cache_ttl)
          /\ get_markets_begin(1, get_client_ip(request))
    \/ get_markets_end(1, TRUE)
    \/ \E request \in GateRequests : analyze_market(get_client_ip(request))
    \/ Tick

SpecKeys == InitKeys /\ [][NextKeys]_vars

-----------------------------------------------------------------------------
(* Specification of the market pipeline *)

\* A market with every price source and every scored field
FullMarket ==
    [BaseMarket EXCEPT !.conditionId = "full",
                       !.lastTradePrice = JNum(730), !.bestBid = JNum(700),
                       !.bestAsk = JNum(740),
                       !.outcomePrices = OutcomeList(<<JNum(600), JNum(400)>>),
                       !.volume = JNum(10000000), !.volume24hr = JNum(10000000),
                       !.liquidity = JNum(1000), !.spread = JNum(20),
                       !.oneDayPriceChange = JNum(100), !.oneWeekPriceChange = JNum(-50),
                       !.commentCount = JNum(1000), !.featured = TRUE,
                       !.endDate = JNum(DaySeconds + TickSeconds)]

\* The market records of the payloads tried, each with its conditionId: the
\* price sources one by one, prices outside [0, 1], outcome lists with entries
\* that are not numbers, and numeric fields that hold a string or an object
RawMarkets ==
    { FullMarket,
      [BaseMarket EXCEPT !.conditionId = "bare"],
      [BaseMarket EXCEPT !.conditionId = "mid",
                         !.bestBid = JNum(700), !.bestAsk = JNum(740),
                         !.outcomePrices = OutcomeList(<<JNum(600), JNum(400)>>)],
      [BaseMarket EXCEPT !.conditionId = "bid",
                         !.bestBid = JNum(700),
                         !.outcomePrices = OutcomeList(<<JNum(600), JNum(300)>>)],
      [BaseMarket EXCEPT !.conditionId = "high", !.lastTradePrice = JNum(1500)],
      [BaseMarket EXCEPT !.conditionId = "zero",
                         !.lastTradePrice = JNum(0), !.bestBid = JNum(700),
                         !.bestAsk = JNum(740)],
      [BaseMarket EXCEPT !.conditionId = "one",
                         !.outcomePrices = OutcomeList(<<JNum(600)>>)],
      [BaseMarket EXCEPT !.conditionId = "second",
                         !.outcomePrices = OutcomeList(<<JNum(600), JStr>>)],
      [BaseMarket EXCEPT !.conditionId = "first",
                         !.outcomePrices = OutcomeList(<<JStr>>)],
      [BaseMarket EXCEPT !.conditionId = "null",
                         !.outcomePrices = OutcomeList(<<JNull>>)],
      [BaseMarket EXCEPT !.conditionId = "last", !.lastTradePrice = JStr],
      [BaseMarket EXCEPT !.conditionId = "volume", !.volume = JObj],
      [BaseMarket EXCEPT !.conditionId = "spread", !.spread = JNum(-50)],
      [BaseMarket EXCEPT !.conditionId = "inactive",
                         !.active = FALSE, !.volume = JStr] }

RECURSIVE Batches(_)
\* The sequences of n market records
Batches(n) ==
    IF n = 0 THEN {<<>>}
    ELSE {Append(b, m) : b \in Batches(n - 1), m \in RawMarkets}

InitPipe ==
    /\ LedgerInit
    /\ GateStart([rate_limit_markets |-> MaxLimitMarkets,
                  rate_limit_analyze |-> MaxLimitAnalyze, cache_ttl |-> CacheTtl], 0)
    /\ \E n \in 1..MaxBatch : \E b \in Batches(n) : PipeStart(b)

NextPipe ==
    \/ fetch_active_markets
    \/ \E limit \in 1..MaxBatch : get_top_opportunities(limit)
    \/ Tick

SpecPipe == InitPipe /\ [][NextPipe]_vars

-----------------------------------------------------------------------------
(* Properties of the ledger *)

Placed == resp.op = "place" /\ resp.outcome = "ok"

\* The placement reached the handler: pydantic built the request
Handled == resp.op = "place" /\ resp.outcome # "ValidationError"

LastTrade == trades[Len(trades)]

\* C1: no lost update.  Whatever placements, resets and price refreshes have
\* run, and in whatever order the event loop ran them, the balance is the
\* configured balance less the amounts of exactly the placements answered
\* success since the last reset.
C1_NoLostUpdate == balance = initial_balance - reported

\* C1 witness: two placements succeeded, a third was refused, and a price
\* refresh is in flight.
C1_Witness ==
    /\ Len(trades) = 2
    /\ resp.op = "place" /\ resp.outcome = "InsufficientBalance"
    /\ reported = trades[1].amount + trades[2].amount
    /\ up.pc = "loop"

\* C2: the balance is never negative.
C2_BalanceNonNegative == balance >= 0

\* C2 witness: a placement that would have fitted the balance before the
\* previous placement was refused after it.
C2_Witness ==
    /\ resp.op = "place" /\ resp.outcome = "InsufficientBalance"
    /\ Len(trades) >= 1
    /\ resp.req.amount <= balance + LastTrade.amount
    /\ resp.req.amount > balance

C4_DebitWithTrade == balance + SumAmounts(trades) = initial_balance

\* C4 witness: a placement committed while a price refresh was waiting on its
\* fetch, so the refresh resumes in a state it did not load.
C4_Witness ==
    /\ up.pc = "loop"
    /\ Len(trades) > Len(up.loaded)
    /\ Placed

\* C5: a successful placement debits exactly the request's amount and appends
\* one ACTIVE trade carrying the request's fields, entry and current price both
\* the request's price; the trades there before are as they were.
C5_PlaceEffect ==
    Placed =>
        /\ balance = resp.pre_balance - resp.req.amount
        /\ resp.new_balance = balance
        /\ Len(trades) = Len(resp.pre_trades) + 1
        /\ SubSeq(trades, 1, Len(resp.pre_trades)) = resp.pre_trades
        /\ LastTrade.status = "ACTIVE"
        /\ LastTrade.market_id = resp.req.market_id
        /\ LastTrade.market_question = resp.req.market_question
        /\ LastTrade.direction = resp.req.direction
        /\ LastTrade.amount = resp.req.amount
        /\ LastTrade.entry_price = resp.req.price
        /\ LastTrade.current_price = resp.req.price
        /\ \A j \in 1..Len(resp.pre_trades) : trades[j].id # LastTrade.id

\* C5 witness: a placement succeeded with a trade already in the table whose
\* price a refresh had moved.
C5_Witness ==
    /\ Placed
    /\ Len(resp.pre_trades) = 1
    /\ resp.pre_trades[1].current_price # resp.pre_trades[1].entry_price
    /\ resp.req.price = 400

AmountAboveBalance(r) == r.raw.amount > 10 * r.pre_balance

Unchanged(r) == balance = r.pre_balance /\ trades = r.pre_trades

\* C6 as stated: amount <= 0 or under the minimum is refused for the amount, a
\* direction other than YES/NO for the direction, and an amount above the
\* balance (direction, price and minimum in order) with insufficient balance.
C6_Original ==
    resp.op = "place" =>
        /\ (resp.raw.amount <= 0 \/ resp.raw.amount < AmountMinMills)
              => resp.outcome = "ValidationError" /\ "amount" \in resp.errors
        /\ resp.raw.direction \notin {"YES", "NO"}
              => resp.outcome = "ValidationError" /\ "direction" \in resp.errors
        /\ (/\ AmountAboveBalance(resp)
            /\ resp.raw.amount >= AmountMinMills
            /\ resp.raw.direction \in {"YES", "NO"}
            /\ resp.raw.price \in 0..PriceMax)
              => resp.outcome = "InsufficientBalance"
        /\ resp.outcome # "ok" => Unchanged(resp)

\* C6 amended: as above, but an amount above the request maximum of 1,000,000
\* is refused for the amount like one under the minimum; insufficient balance
\* is the answer when the request passes validation and its (rounded) amount
\* exceeds the balance.  Every refusal leaves balance and trades unchanged.
C6_Validation ==
    resp.op = "place" =>
        /\ (\/ resp.raw.amount <= 0
            \/ resp.raw.amount < AmountMinMills
            \/ resp.raw.amount > AmountMaxMills)
              => resp.outcome = "ValidationError" /\ "amount" \in resp.errors
        /\ resp.raw.direction \notin {"YES", "NO"}
              => resp.outcome = "ValidationError" /\ "direction" \in resp.errors
        /\ (/\ resp.raw.amount \in AmountMinMills..AmountMaxMills
            /\ resp.raw.direction \in {"YES", "NO"}
            /\ resp.raw.price \in 0..PriceMax
            /\ resp.req.amount > resp.pre_balance)
              => resp.outcome = "InsufficientBalance"
        /\ resp.outcome # "ok" => Unchanged(resp)

\* C6 witness: an amount above the maximum, and above the balance, was refused
\* for the amount with a trade in the table.
C6_Witness ==
    /\ resp.op = "place"
    /\ resp.raw.amount > AmountMaxMills
    /\ AmountAboveBalance(resp)
    /\ resp.outcome = "ValidationError"
    /\ Len(trades) >= 1

\* C7: whatever the state reset ran in, it leaves the configured balance and
\* an empty trades table; so does a reset that follows a reset.
C7_Reset == resp.op = "reset" => balance = initial_balance /\ trades = <<>>

\* C7 witness: reset ran on a debited balance with trades in the table.
C7_Witness ==
    /\ resp.op = "reset"
    /\ resp.pre_count = 2
    /\ resp.pre_balance < initial_balance

FetchedIds(r) == {d.id : d \in r.fetched}

\* The rows the refresh loaded are in the table, as they were loaded, when it
\* commits: no reset has emptied the table under it
RowsAsLoaded(r) ==
    \A j \in 1..Len(r.loaded) :
        \E k \in 1..Len(r.pre_trades) :
            /\ r.pre_trades[k].id = r.loaded[j].id
            /\ r.pre_trades[k].direction = r.loaded[j].direction
            /\ r.pre_trades[k].current_price = r.loaded[j].current_price

\* C13: a refresh over the ACTIVE trades it loaded completes, whichever of its
\* fetches failed or returned nothing: it went through every loaded trade,
\* reports as updated_count the number of trades whose market was fetched
\* (between 0 and the total), has written the fetched price on each of those,
\* and every other trade is as it was.
C13_PartialFailure ==
    (resp.op = "update" /\ RowsAsLoaded(resp)) =>
        /\ resp.outcome = "ok"
        /\ resp.total = Len(resp.loaded)
        /\ resp.updated_count = Cardinality(FetchedIds(resp))
        /\ resp.updated_count \in 0..resp.total
        /\ FetchedIds(resp) \subseteq {resp.loaded[j].id : j \in 1..Len(resp.loaded)}
        /\ Len(trades) = Len(resp.pre_trades)
        /\ \A j \in 1..Len(trades) :
              IF trades[j].id \in FetchedIds(resp)
              THEN \E d \in resp.fetched :
                      d.id = trades[j].id /\ trades[j].current_price = d.price
              ELSE trades[j] = resp.pre_trades[j]

\* C13 witness: of two trades the first one's fetch failed and the second
\* one's succeeded and moved its price; the refresh reported 1 of 2.
C13_Witness ==
    /\ resp.op = "update" /\ resp.outcome = "ok"
    /\ resp.total = 2 /\ resp.updated_count = 1
    /\ FetchedIds(resp) = {resp.loaded[2].id}
    /\ Len(trades) = 2
    /\ trades[1] = resp.pre_trades[1]
    /\ trades[2].current_price # resp.pre_trades[2].current_price

\* C14 as stated: a refresh writes on every trade whose market was fetched the
\* price of the side it holds, and that price is the one the Normalizer
\* (_parse_market) gives for the market record the fetch returned.
C14_NormalizerPrice ==
    (resp.op = "update" /\ RowsAsLoaded(resp)) =>
        \A d \in resp.fetched :
            /\ \E j \in 1..Len(trades) :
                  trades[j].id = d.id /\ trades[j].current_price = d.price
            /\ d.snapshot # -1 => d.price = d.snapshot

\* The PnL of the claim for a trade with both prices known
ExpectedPnl(i) ==
    IF i.direction = "YES"
    THEN RatOf(i.current_price - i.entry_price, i.amount, i.entry_price)
    ELSE RatOf(i.entry_price - i.current_price, i.amount, i.entry_price)

\* C15 as stated: GET /portfolio reports for every ACTIVE trade whose prices
\* are both known (every trade of the table has both; the quotient needs an
\* entry price other than 0) the PnL (current - entry) * amount / entry for YES
\* and (entry - current) * amount / entry for NO.
C15_Pnl ==
    resp.op = "portfolio" =>
        \A j \in 1..Len(resp.active_trades) :
            resp.active_trades[j].entry_price # 0
                => resp.active_trades[j].pnl = ExpectedPnl(resp.active_trades[j])

RECURSIVE PnlTotal(_)
PnlTotal(infos) ==
    IF infos = <<>> THEN RatZero ELSE RatAdd(infos[1].pnl, PnlTotal(Tail(infos)))

\* C16: GET /portfolio returns the balance, one entry for each ACTIVE trade of
\* the table and no other, and as total_pnl the sum of the PnLs of the entries
\* it returns; balance and trades are as they were.
C16_Portfolio ==
    resp.op = "portfolio" =>
        /\ resp.new_balance = balance
        /\ balance = resp.pre_balance
        /\ trades = resp.pre_trades
        /\ Len(resp.active_trades) = Len(ActiveTrades(trades))
        /\ \A j \in 1..Len(resp.active_trades) :
              /\ resp.active_trades[j].status = "ACTIVE"
              /\ resp.active_trades[j].id = ActiveTrades(trades)[j].id
        /\ \A j \in 1..Len(trades) :
              trades[j].status = "ACTIVE"
                  => \E k \in 1..Len(resp.active_trades) :
                        resp.active_trades[k].id = trades[j].id
        /\ resp.total_pnl = PnlTotal(resp.active_trades)

\* C16 witness: the portfolio was read with two trades in the table, both away
\* from their entry price, one at a gain and one at a loss.
C16_Witness ==
    /\ resp.op = "portfolio"
    /\ Len(resp.active_trades) = 2
    /\ resp.active_trades[1].pnl.num > 0
    /\ resp.active_trades[2].pnl.num < 0
    /\ resp.new_balance < initial_balance

-----------------------------------------------------------------------------
(* Properties of the gate *)

Attempted == gev.op \in Endpoints

LimitOf(key) ==
    IF key[2] = "markets" THEN settings.rate_limit_markets
    ELSE settings.rate_limit_analyze

\* C8 as stated: an attempt is admitted exactly when fewer than max_requests
\* admitted attempts of its key lie in the window ending at it, and so no
\* window holds more than max_requests admitted attempts.
C8_SlidingWindow ==
    /\ Attempted => (gev.allowed <=> gev.prior < gev.max_requests)
    /\ \A k \in Keys : Len(admitLog[k]) <= LimitOf(k)

\* C9: an attempt that finds the key's record full, its oldest timestamp older
\* than the window, is admitted.
C9_Recovery ==
    (/\ Attempted
     /\ Len(gev.pre_requests) >= gev.max_requests
     /\ gev.pre_requests[1] < gev.at - WindowSeconds)
        => gev.allowed

\* C9 witness: the key's previous attempt was rejected on a full window, time
\* passed, and this attempt was admitted.
C9_Witness ==
    /\ Attempted
    /\ gev.was_denied
    /\ Len(gev.pre_requests) = gev.max_requests
    /\ gev.allowed

\* C10: an admitted GET /markets that finds an entry younger than the TTL
\* returns that entry's data, issues no fetch and leaves the entry as it is.
C10_FreshHit ==
    (/\ gev.op = "markets"
     /\ gev.allowed
     /\ gev.pre_cache.data # 0
     /\ gev.at - gev.pre_cache.timestamp < settings.cache_ttl)
        => /\ gev.outcome = "hit"
           /\ gev.data = gev.pre_cache.data
           /\ fetches = gev.pre_fetches
           /\ market_cache = gev.pre_cache
           /\ \A s \in 1..MaxInFlight : gm[s].pc = "fetching" => gm[s].fetch <= gev.pre_fetches

\* C10 witness: a request was served from an entry written by an earlier
\* request's fetch, after time had passed.
C10_Witness ==
    /\ gev.op = "markets"
    /\ gev.outcome = "hit"
    /\ gev.at > gev.pre_cache.timestamp
    /\ gev.data > 0

\* C11: an admitted GET /markets that finds no entry, or an entry whose age
\* has reached the TTL, issues an upstream fetch; when that fetch succeeds the
\* entry is replaced by its result and the caller is answered with that
\* result, not with the entry that was there.
C11_RefreshOnMiss ==
    /\ (/\ gev.op = "markets"
        /\ gev.allowed
        /\ (\/ gev.pre_cache.data = 0
            \/ gev.at - gev.pre_cache.timestamp >= settings.cache_ttl))
          => /\ gev.outcome = "fetching"
             /\ fetches = gev.pre_fetches + 1
             /\ \E s \in 1..MaxInFlight : gm[s].pc = "fetching" /\ gm[s].fetch = fetches
    /\ (gev.op = "markets_end" /\ gev.fetch_ok)
          => /\ gev.outcome = "fresh"
             /\ market_cache.data = gev.data
             /\ gev.data # gev.pre_cache.data
             /\ gev.data > 0

\* C11 witness: a fetch issued because the entry had expired has succeeded
\* and replaced that entry.
C11_Witness ==
    /\ gev.op = "markets_end"
    /\ gev.outcome = "fresh"
    /\ gev.pre_cache.data # 0
    /\ gev.at - gev.pre_cache.timestamp >= settings.cache_ttl
    /\ market_cache.data = gev.data

\* C12: when the fetch fails and the cache holds an entry, of whatever age, the
\* caller is answered with that entry's data as a success and the entry stays
\* as it is; the caller gets a failure only if no entry was ever written.
C12_StaleOnError ==
    (gev.op = "markets_end" /\ ~gev.fetch_ok)
        => /\ gev.pre_cache.data # 0
                => gev.outcome = "stale" /\ gev.data = gev.pre_cache.data
           /\ gev.pre_cache.data = 0 => gev.outcome = "500"
           /\ market_cache = gev.pre_cache

\* C12 witness: a fetch failed with an entry older than the TTL in the cache,
\* and the caller was answered from it.
C12_Witness ==
    /\ gev.op = "markets_end"
    /\ ~gev.fetch_ok
    /\ gev.outcome = "stale"
    /\ gev.at - gev.pre_cache.timestamp >= settings.cache_ttl

-----------------------------------------------------------------------------
(* Properties of the market pipeline *)

\* The records of the payload that fetch_active_markets normalizes
ActiveFeed == SelectSeq(feed, LAMBDA m : m.active)

Normalized == pipe.op = "fetch" /\ ~pipe.raises

\* C17: every snapshot normalization returns has its yes_price in
\* [0.001, 0.999] and its no_price equal to 1 - yes_price, whichever source the
\* price came from and whatever no_price the outcome list carried.
C17_PriceRange ==
    Normalized =>
        \A j \in 1..Len(pipe.markets) :
            /\ pipe.markets[j].yes_price \in PriceFloor..PriceCeil
            /\ pipe.markets[j].no_price = PriceMax - pipe.markets[j].yes_price

\* C17 witness: a payload was normalized in which one market's last trade
\* price was above 1 and another's outcome list carried a no_price that is not
\* 1 - yes_price.
C17_Witness ==
    /\ Normalized
    /\ Len(pipe.markets) = 2
    /\ resolve_price(ActiveFeed[1]).yes > PriceMax
    /\ pipe.markets[1].yes_price = PriceCeil
    /\ ActiveFeed[2].lastTradePrice = JNull
    /\ resolve_price(ActiveFeed[2]).no # PriceMax - resolve_price(ActiveFeed[2]).yes
    /\ pipe.markets[2].no_price = PriceMax - pipe.markets[2].yes_price

\* The price the chain of the claim resolves: the last trade price when there
\* is one, else the midpoint when there are both a bid and an ask, else the
\* first entry of the outcome list when that is a number, else 0.5
ChainPrice(market) ==
    IF market.lastTradePrice.k # "null" THEN market.lastTradePrice.v
    ELSE IF market.bestBid.k # "null" /\ market.bestAsk.k # "null"
    THEN (market.bestBid.v + market.bestAsk.v) \div 2
    ELSE IF /\ market.outcomePrices.k = "list"
            /\ Len(market.outcomePrices.items) > 0
            /\ market.outcomePrices.items[1].k = "num"
    THEN market.outcomePrices.items[1].v
    ELSE HalfPrice

\* C18 as stated: for every market that is normalized the price before the
\* clamp is the one of the highest source present - last trade, bid/ask
\* midpoint, first entry of the outcome list, 0.5 - and the snapshot carries
\* that price clamped.
C18_Priority ==
    Normalized =>
        \A j \in 1..Len(pipe.markets) :
            /\ resolve_price(ActiveFeed[j]).yes = ChainPrice(ActiveFeed[j])
            /\ pipe.markets[j].yes_price = Clamp(ChainPrice(ActiveFeed[j]))

\* C19 as stated: normalization never fails.  Whatever the fields of the
\* markets of a payload hold, fetch_active_markets returns a snapshot for every
\* active market of it.
C19_NeverFails ==
    pipe.op = "fetch" => ~pipe.raises /\ Len(pipe.markets) = Len(ActiveFeed)

FactorNames ==
    {"momentum", "volume", "liquidity", "spread", "uncertainty", "timing", "engagement"}

\* C20 as stated: every factor score and the total of every scored market lie
\* in [0, 100] (scores are held in tenths).
C20_ScoreRange ==
    (pipe.op = "rank" /\ ~pipe.raises) =>
        \A j \in 1..Len(pipe.markets) :
            /\ pipe.markets[j].opportunity_score \in 0..1000
            /\ \A f \in FactorNames : pipe.markets[j].score_breakdown[f] \in 0..1000

Ranked == pipe.op = "rank" /\ ~pipe.raises

\* The markets a ranking scores, in the order of the payload, scored at time t
ScoredFeed(t) ==
    LET open == SelectSeq(feed, LAMBDA m : m.active /\ m.acceptingOrders)
    IN  [j \in 1..Len(open) |-> calculate_opportunity_score(open[j], t)]

\* The place of entry i of `scored` in the ordering by score, highest first,
\* equal scores in input order: one more than the number of entries that score
\* higher or that score the same and come earlier
PlaceOf(scored, i) ==
    1 + Cardinality({j \in 1..Len(scored) :
                        scored[j].opportunity_score > scored[i].opportunity_score})
      + Cardinality({j \in 1..(i - 1) :
                        scored[j].opportunity_score = scored[i].opportunity_score})

\* C21: a ranking returns min(limit, number of scored markets) entries, in
\* descending score order; they are the first entries of the ordering by
\* score in which markets of equal score keep their input order.
C21_Ranking ==
    Ranked =>
        LET scored == ScoredFeed(pipe.at)
            n      == IF pipe.limit < Len(scored) THEN pipe.limit ELSE Len(scored)
        IN  /\ Len(pipe.markets) = n
            /\ \A j \in 1..(n - 1) :
                  pipe.markets[j].opportunity_score >= pipe.markets[j + 1].opportunity_score
            /\ \A i \in 1..Len(scored) :
                  PlaceOf(scored, i) <= n => pipe.markets[PlaceOf(scored, i)] = scored[i]

\* Two different markets of equal score were ranked with limit 1, and the one
\* returned is the one that came first
C21_Witness ==
    /\ Ranked
    /\ Len(ScoredFeed(pipe.at)) = 2
    /\ ScoredFeed(pipe.at)[1].opportunity_score = ScoredFeed(pipe.at)[2].opportunity_score
    /\ ScoredFeed(pipe.at)[1].id # ScoredFeed(pipe.at)[2].id
    /\ pipe.limit = 1
    /\ pipe.markets = <<ScoredFeed(pipe.at)[1]>>

\* C22 as stated: scoring does not depend on when it runs.  The markets of a
\* ranking, scored again at any later time, get the opportunity_score and the
\* score_breakdown they got in the ranking.
C22_Deterministic ==
    Ranked =>
        \A j \in 1..Len(ScoredFeed(pipe.at)) :
            /\ ScoredFeed(now)[j].opportunity_score
                   = ScoredFeed(pipe.at)[j].opportunity_score
            /\ ScoredFeed(now)[j].score_breakdown
                   = ScoredFeed(pipe.at)[j].score_breakdown

Returned == resp.op = "return" /\ resp.outcome = "ok"

C24_PriceDomain ==
    \A i \in 1..Len(trades) :
        /\ trades[i].entry_price \in 1..PriceMax
        /\ trades[i].current_price \in 1..PriceMax

OpenFeed == SelectSeq(feed, LAMBDA m : m.active /\ m.acceptingOrders)

\* C25 as stated: for a market record without a spread field the snapshot of
\* the Normalizer carries spread 0.05 and the Scorer computes with spread 0.05,
\* the value the snapshot carries.
C25_SpreadDefault ==
    /\ Normalized =>
          \A j \in 1..Len(pipe.markets) :
              ActiveFeed[j].spread = JNull => pipe.markets[j].spread = ScorerSpreadDefault
    /\ Ranked =>
          \A j \in 1..Len(OpenFeed) :
              OpenFeed[j].spread = JNull =>
                  /\ ScoredFeed(pipe.at)[j].spread = ScorerSpreadDefault
                  /\ ~parse_market(OpenFeed[j], pipe.at).raises =>
                        parse_market(OpenFeed[j], pipe.at).spread
                            = ScoredFeed(pipe.at)[j].spread

-----------------------------------------------------------------------------
(* Properties of the gate under concurrent requests *)

\* C26: admission is atomic.  However the requests of a key interleave with
\* each other and with requests waiting on their fetch, an attempt is rejected
\* only when max_requests admitted attempts of its key lie in the window, an
\* admitted attempt is recorded, and no window ever holds more than
\* max_requests admitted attempts: of k > max_requests attempts in one window
\* exactly max_requests are admitted.
C26_AtomicAdmission ==
    /\ \A k \in Keys : Len(InWindow(admitLog[k], now, WindowSeconds)) <= LimitOf(k)
    /\ (Attempted /\ ~gev.allowed)
          => Len(InWindow(admitLog[Key(gev.client, gev.op)], gev.at, WindowSeconds))
                 = gev.max_requests
    /\ (Attempted /\ gev.allowed)
          => /\ Len(InWindow(admitLog[Key(gev.client, gev.op)], gev.at, WindowSeconds))
                    = gev.prior + 1
             /\ rate_limit_store[Key(gev.client, gev.op)] # <<>>
             /\ rate_limit_store[Key(gev.client, gev.op)]
                    [Len(rate_limit_store[Key(gev.client, gev.op)])] = gev.at

\* C26 witness: a GET /markets was rejected at the very instant at which the
\* two requests that fill its window were admitted, while one of them is still
\* waiting on its fetch.
C26_Witness ==
    /\ gev.op = "markets"
    /\ ~gev.allowed
    /\ gev.max_requests = 2
    /\ admitLog[Key(gev.client, "markets")] = <<gev.at, gev.at>>
    /\ \E s \in 1..MaxInFlight : gm[s].pc = "fetching" /\ gm[s].now = gev.at

\* The entry is empty, or its data and its timestamp are those of one fetch
WholeEntry(cache) ==
    \/ cache = NoCache
    \/ /\ cache.data \in 1..Len(fetchStarted)
       /\ cache.timestamp = fetchStarted[cache.data]

\* C27: the cache entry is replaced in one piece.  Under every interleaving of
\* requests, the entry in the cache and the entry any request finds hold the
\* data of one fetch with the timestamp of that same fetch, and a request
\* answered from the cache is answered with the data of that entry.
C27_AtomicReplacement ==
    /\ WholeEntry(market_cache)
    /\ WholeEntry(gev.pre_cache)
    /\ gev.outcome \in {"hit", "stale"} => gev.data = gev.pre_cache.data

\* C27 witness: of two requests fetching at the same time the later-issued
\* finished first, and the other has now replaced its entry.
C27_Witness ==
    /\ gev.op = "markets_end"
    /\ gev.fetch_ok
    /\ gev.pre_cache.data > gev.data
    /\ market_cache = [data |-> gev.data, timestamp |-> fetchStarted[gev.data]]

\* C28 as stated: a successful refresh never lowers the entry's timestamp, a
\* request that started earlier never replaces the entry of a request that
\* started later, and the timestamp is not earlier than the start of the fetch
\* the data came from.
C28_Monotonic ==
    /\ (gev.op = "markets_end" /\ gev.fetch_ok)
          => /\ market_cache.timestamp >= gev.pre_cache.timestamp
             /\ gev.pre_cache.data # 0
                   => fetchStarted[gev.data] >= fetchStarted[gev.pre_cache.data]
    /\ market_cache.data # 0 => market_cache.timestamp >= fetchStarted[market_cache.data]

\* C29: a failed fetch leaves the entry, data and timestamp, as it was; and
\* the admitted request that follows a failed fetch, the entry empty or of an
\* age that had reached the TTL when the fetch failed, issues a fetch again.
C29_FailedRefresh ==
    /\ (gev.op = "markets_end" /\ ~gev.fetch_ok) => market_cache = gev.pre_cache
    /\ (/\ gev.op = "markets"
        /\ gev.allowed
        /\ gev.prev.op = "markets_end"
        /\ ~gev.prev.fetch_ok
        /\ (\/ gev.pre_cache.data = 0
            \/ gev.prev.at - gev.pre_cache.timestamp >= settings.cache_ttl))
          => /\ gev.outcome = "fetching"
             /\ fetches = gev.pre_fetches + 1

\* C29 witness: a fetch failed and its caller was answered from an expired
\* entry; the next request, admitted, has issued a fetch.
C29_Witness ==
    /\ gev.op = "markets"
    /\ gev.outcome = "fetching"
    /\ gev.prev.op = "markets_end"
    /\ gev.prev.outcome = "stale"
    /\ gev.pre_cache.data # 0
    /\ market_cache = gev.pre_cache

\* C30: admission comes before the cache.  A rejected request is answered 429
\* with no data, issues no fetch and leaves the cache as it is, fresh entry or
\* not; an admitted request adds its timestamp to the key's record, whether it
\* is then served from the cache or goes to the upstream, and the end of a
\* fetch, failed or not, gives nothing back.
C30_AdmissionFirst ==
    /\ (Attempted /\ ~gev.allowed)
          => /\ gev.outcome = "429"
             /\ gev.data = 0
             /\ fetches = gev.pre_fetches
             /\ market_cache = gev.pre_cache
             /\ \A s \in 1..MaxInFlight :
                   gm[s].pc = "fetching" => gm[s].fetch <= gev.pre_fetches
    /\ (Attempted /\ gev.allowed)
          => /\ gev.outcome \in {"hit", "fetching", "admitted"}
             /\ rate_limit_store[Key(gev.client, gev.op)]
                    = Append(Evict(gev.pre_requests, gev.at - WindowSeconds), gev.at)
    /\ gev.op = "markets_end"
          => rate_limit_store[Key(gev.client, "markets")] = gev.pre_requests

\* C30 witness: a request was rejected while the cache held a fresh entry.
C30_Witness ==
    /\ gev.op = "markets"
    /\ gev.outcome = "429"
    /\ CacheFresh(gev.pre_cache, gev.at, settings.cache_ttl)

-----------------------------------------------------------------------------
(* Frame properties *)

\* C31: a rejected attempt records nothing.  The key's record after a
\* rejection is the record before it less the timestamps older than the
\* window, in the same order, and the log of admitted timestamps is as it was;
\* so an attempt that follows rejections is admitted as soon as fewer than
\* max_requests admitted timestamps are left in the window.
C31_RejectionRecordsNothing ==
    /\ (Attempted /\ ~gev.allowed)
          => /\ rate_limit_store[Key(gev.client, gev.op)]
                    = SelectSeq(gev.pre_requests, LAMBDA x : x >= gev.at - WindowSeconds)
             /\ Len(admitLog[Key(gev.client, gev.op)]) = gev.prior
    /\ (Attempted /\ gev.was_denied /\ gev.prior < gev.max_requests) => gev.allowed

\* C31 witness: an attempt was rejected right after a rejected attempt of the
\* same key, and the record still holds what it held.
C31_Witness ==
    /\ Attempted
    /\ ~gev.allowed
    /\ gev.was_denied
    /\ gev.pre_requests # <<>>
    /\ rate_limit_store[Key(gev.client, gev.op)] = gev.pre_requests

\* What a trade is apart from its current price
FrameOf(t) ==
    [id |-> t.id, market_id |-> t.market_id, direction |-> t.direction,
     amount |-> t.amount, entry_price |-> t.entry_price, status |-> t.status]

\* C32: a price refresh changes nothing but current_price.  No step of a
\* refresh - loading the trades, a fetch, the commit - changes the balance, the
\* number of trades or any trade's id, market, direction, amount, entry price
\* or status; and no step of any operation but reset removes a trade or
\* changes the amount or the entry price of a trade there is.
C32_RefreshFrame ==
    [][LET refresh == up' # up
           reset   == resp'.op = "reset" /\ ~refresh
       IN  /\ refresh =>
                 /\ balance' = balance
                 /\ Len(trades') = Len(trades)
                 /\ \A j \in 1..Len(trades) : FrameOf(trades'[j]) = FrameOf(trades[j])
           /\ ~reset =>
                 /\ Len(trades') >= Len(trades)
                 /\ \A j \in 1..Len(trades) :
                       /\ trades'[j].amount = trades[j].amount
                       /\ trades'[j].entry_price = trades[j].entry_price]_vars

\* C32 witness: a refresh has committed a new current price for a trade of a
\* debited portfolio.
C32_Witness ==
    /\ resp.op = "update"
    /\ resp.outcome = "ok"
    /\ balance < initial_balance
    /\ Len(trades) = Len(resp.pre_trades)
    /\ \E j \in 1..Len(trades) :
          /\ trades[j].current_price # resp.pre_trades[j].current_price
          /\ trades[j].entry_price = resp.pre_trades[j].entry_price

\* C33: the keys are independent.  A step changes the record of a key only if
\* it is an attempt of that very client on that very endpoint, and an attempt
\* is admitted exactly when the record of its own key holds fewer than
\* max_requests timestamps of the window, whatever the other keys hold.
C33_KeysIndependent ==
    [][/\ \A k \in Keys :
             rate_limit_store'[k] # rate_limit_store[k]
                 => (gev'.op \in Endpoints /\ k = <<gev'.client, gev'.op>>)
       /\ (gev' # gev /\ gev'.op \in Endpoints)
             => (gev'.allowed <=>
                    Len(SelectSeq(rate_limit_store[<<gev'.client, gev'.op>>],
                                  LAMBDA x : x >= now - WindowSeconds))
                        < gev'.max_requests)]_vars

\* C33 witness: client a, its analyze budget used up and rejected there, is
\* admitted on the markets endpoint in the same window, in which client b has
\* used up its own markets budget and been rejected.
C33_Witness ==
    /\ gev.op = "markets"
    /\ gev.client = "a"
    /\ gev.allowed
    /\ lastDenied[<<"a", "analyze">>]
    /\ lastDenied[<<"b", "markets">>]
    /\ Len(rate_limit_store[<<"b", "markets">>]) = settings.rate_limit_markets

\* C34: the portfolio is created once.  Startup on a database without a
\* portfolio leaves one portfolio with the configured balance; startup on a
\* database with a portfolio leaves the balance and the trades as they were;
\* and whatever startups and ledger operations have run, in whatever order,
\* there is exactly one portfolio once the server has started.
C34_CreatedOnce ==
    /\ portfolios <= 1
    /\ resp.op # "none" => portfolios = 1
    /\ resp.op = "startup" =>
          /\ resp.pre_portfolios = 0 => balance = initial_balance
          /\ resp.pre_portfolios > 0 => balance = resp.pre_balance
          /\ trades = resp.pre_trades

\* C34 witness: the server was started again on a portfolio with a debited
\* balance and trades.
C34_Witness ==
    /\ resp.op = "startup"
    /\ resp.pre_portfolios = 1
    /\ balance < initial_balance
    /\ Len(trades) = 2

\* C35 as stated: the Scorer works on the Normalizer's prices.  For every
\* market a ranking scores, the yes_price and the no_price of the scored output
\* are those the Normalizer gives the same record, and the uncertainty factor
\* is 100 - |yes_price - 0.5| * 200 of that yes_price (prices in per-mille,
\* scores in tenths).
C35_ScorerPrices ==
    Ranked =>
        \A j \in 1..Len(OpenFeed) :
            LET snapshot == parse_market(OpenFeed[j], pipe.at)
                scored   == ScoredFeed(pipe.at)[j]
            IN  ~snapshot.raises =>
                    /\ scored.yes_price = snapshot.yes_price
                    /\ scored.no_price = snapshot.no_price
                    /\ scored.score_breakdown.uncertainty
                           = 1000 - 2 * Abs(snapshot.yes_price - HalfPrice)

=============================================================================
